---- MODULE Spec2Model ----
(***************************************************************************)
(* A model of src/src/server.c: the tiny weather REST server.              *)
(*                                                                         *)
(* Bytes are one-character strings; the NUL byte is the token NUL and a    *)
(* byte outside printable ASCII is a token made by Chr.  A C string is a   *)
(* sequence of bytes without NUL; a buffer is a sequence of bytes that is  *)
(* addressed with C indices (0-based) through At and Put.                  *)
(***************************************************************************)
EXTENDS Integers, Sequences, FiniteSets, TLC

VARIABLES pc, serverOpen, clientOpen, nreads, r, rx, buf, wire, info, arg, res

vars == <<pc, serverOpen, clientOpen, nreads, r, rx, buf, wire, info, arg, res>>

(***************************************************************************)
(* Program constants.                                                      *)
(***************************************************************************)
BUF_SIZE == 8192

METHOD_SIZE == 16

PATH_SIZE == 256

CITY_SIZE == 128

COORD_SIZE == 64

MAX_CITY_LEN == 100

BODY_SIZE == 256

(***************************************************************************)
(* Bounds of the model.                                                    *)
(***************************************************************************)
MaxDecLen == 4

MaxRawLen == 4

MaxPairs == 2

(***************************************************************************)
(* Bytes and C strings.                                                    *)
(***************************************************************************)
NUL == "\\0"

CR == "\r"

LF == "\n"

Printable ==
  <<" ","!","\"","#","$","%","&","'","(",")","*","+",",","-",".","/",
    "0","1","2","3","4","5","6","7","8","9",":",";","<","=",">","?",
    "@","A","B","C","D","E","F","G","H","I","J","K","L","M","N","O",
    "P","Q","R","S","T","U","V","W","X","Y","Z","[","\\","]","^","_",
    "\\x96","a","b","c","d","e","f","g","h","i","j","k","l","m","n","o",
    "p","q","r","s","t","u","v","w","x","y","z","{","|","}","~">>

\* (char) n for a byte value n in 0..255
Chr(n) ==
  IF n = 0 THEN NUL
  ELSE IF n >= 32 /\ n <= 126 THEN Printable[n - 31]
  ELSE IF n = 13 THEN CR
  ELSE IF n = 10 THEN LF
  ELSE "\\x" \o ToString(n)

Digits == <<"0","1","2","3","4","5","6","7","8","9">>

HexLower == <<"a","b","c","d","e","f">>

HexUpper == <<"A","B","C","D","E","F">>

Range(s) == {s[i] : i \in 1..Len(s)}

IndexOf(s, c) == CHOOSE i \in 1..Len(s) : s[i] = c

isdigit(c) == c \in Range(Digits)

\* isxdigit(3): 0-9, a-f, A-F; false for NUL
isxdigit(c) == c \in Range(Digits) \cup Range(HexLower) \cup Range(HexUpper)

HexVal(c) ==
  IF c \in Range(Digits) THEN IndexOf(Digits, c) - 1
  ELSE IF c \in Range(HexLower) THEN IndexOf(HexLower, c) + 9
  ELSE IndexOf(HexUpper, c) + 9

\* (char) strtol(hex, NULL, 16) for hex = {h1, h2, 0}
strtol16(h1, h2) == Chr(16 * HexVal(h1) + HexVal(h2))

Min(a, b) == IF a < b THEN a ELSE b

\* buffer access with C indices
At(mem, i) == mem[i + 1]

Put(mem, i, c) == [mem EXCEPT ![i + 1] = c]

\* n times the byte c, and n times the string s
Rep(c, n) == <<>> \o [i \in 1..n |-> c]

RepS(s, n) == <<>> \o [i \in 1..(n * Len(s)) |-> s[((i - 1) % Len(s)) + 1]]

\* strlen(mem + from): number of bytes before the first NUL at or after from
strlen(mem, from) ==
  (CHOOSE i \in from..(Len(mem) - 1) :
      /\ At(mem, i) = NUL
      /\ \A j \in from..(i - 1) : At(mem, j) # NUL) - from

\* the C string that starts at mem + from
CStr(mem, from) == SubSeq(mem, from + 1, from + strlen(mem, from))

\* a C string laid out in memory with its terminator
Z(s) == s \o <<NUL>>

\* the null pointer, as an index
NULLP == -1

\* strchr(mem + from, c) as an index into mem, NULLP when c is not found
\* before the terminator
strchr(mem, from, c) ==
  LET n == strlen(mem, from)
      hits == {i \in from..(from + n - 1) : At(mem, i) = c}
  IN IF hits = {} THEN NULLP
     ELSE CHOOSE i \in hits : \A j \in hits : i <= j

\* strstr(mem, "\r\n") as an index, NULLP when absent
strstr_crlf(mem) ==
  LET n == strlen(mem, 0)
      hits == {i \in 0..(n - 2) : At(mem, i) = CR /\ At(mem, i + 1) = LF}
  IN IF hits = {} THEN NULLP
     ELSE CHOOSE i \in hits : \A j \in hits : i <= j

\* starts_with(s, prefix) on C strings: strncmp(s, prefix, strlen(prefix)) == 0
starts_with(s, prefix) ==
  /\ Len(s) >= Len(prefix)
  /\ SubSeq(s, 1, Len(prefix)) = prefix

(***************************************************************************)
(* url_decode: in place, s the read index and o the write index.  The      *)
(* result holds the buffer, the final write index (where the terminator    *)
(* went) and whether the write index stayed at or behind the read index.   *)
(***************************************************************************)
\* decode_step without `s += 2`: the two hex digits are read again
decode_step_noskip(mem, s) ==
  IF /\ At(mem, s) = "%"
     /\ isxdigit(At(mem, s + 1))
     /\ isxdigit(At(mem, s + 2))
  THEN [c |-> strtol16(At(mem, s + 1), At(mem, s + 2)), s |-> s]
  ELSE IF At(mem, s) = "+"
  THEN [c |-> " ", s |-> s]
  ELSE [c |-> At(mem, s), s |-> s]

\* one turn of the loop body at read index s: the byte to write and the
\* index of the last byte consumed
decode_step(mem, s) ==
  IF /\ At(mem, s) = "%"
     /\ isxdigit(At(mem, s + 1))
     /\ isxdigit(At(mem, s + 2))
  THEN [c |-> strtol16(At(mem, s + 1), At(mem, s + 2)), s |-> s + 2]
  ELSE IF At(mem, s) = "+"
  THEN [c |-> " ", s |-> s]
  ELSE [c |-> At(mem, s), s |-> s]

\* one turn of the for loop; st is [mem, s, o, behind, done]: the buffer,
\* the read and write indices, whether the write index never passed the
\* read index, and whether the loop test `*s` has failed
url_decode_body(st) ==
  IF At(st.mem, st.s) = NUL THEN [st EXCEPT !.done = TRUE]
  ELSE LET step == decode_step(st.mem, st.s)
       IN [mem |-> Put(st.mem, st.o, step.c), s |-> step.s + 1, o |-> st.o + 1,
           behind |-> st.behind /\ st.o <= st.s, done |-> FALSE]

\* at most n turns of the loop, halved so that the evaluation stays shallow
RECURSIVE url_decode_run(_, _)
url_decode_run(st, n) ==
  IF n = 0 THEN st
  ELSE IF n = 1 THEN (IF st.done THEN st ELSE url_decode_body(st))
  ELSE LET mid == url_decode_run(st, n \div 2)
       IN IF mid.done THEN mid ELSE url_decode_run(mid, n - (n \div 2))

\* after the loop: `*o = '\0'`
url_decode_end(f) ==
  [mem |-> Put(f.mem, f.o, NUL), o |-> f.o, behind |-> f.behind /\ f.o <= f.s]

url_decode(mem) ==
  url_decode_end(url_decode_run([mem |-> mem, s |-> 0, o |-> 0, behind |-> TRUE,
                                 done |-> FALSE], Len(mem)))

(***************************************************************************)
(* parse_query_param.  query is [null, s]: the null pointer or a C string. *)
(* out is the caller's buffer of outlen bytes.  The result holds whether   *)
(* the key was found, the buffer, the length of the decoded value (the     *)
(* index of the terminator url_decode wrote), the highest index written    *)
(* (top, -1 when nothing was written) and url_decode's behind flag.        *)
(***************************************************************************)
NoQuery == [null |-> TRUE, s |-> <<>>]

Query(s) == [null |-> FALSE, s |-> s]

\* strncpy(dst, src + from, n): n bytes are written, the bytes of the C
\* string at src + from and then NUL padding
strncpy(dst, src, from, n) ==
  LET k == Min(n, strlen(src, from))
  IN SubSeq(src, from + 1, from + k) \o Rep(NUL, n - k) \o SubSeq(dst, n + 1, Len(dst))

\* the clamp `if (vlen >= outlen) vlen = outlen - 1` on a size_t vlen: a
\* negative difference d has wrapped to a huge value and is clamped too
\* the clamp to outlen instead of outlen - 1
clamp_full(d, outlen) == IF d < 0 \/ d > outlen THEN outlen ELSE d

clamp(d, outlen) == IF d < 0 \/ d >= outlen THEN outlen - 1 ELSE d

\* key_matches without the length test: a prefix of the pair's key matches
key_matches_prefix(q, p, eq, key) == SubSeq(q, p + 1, p + Len(key)) = key

\* klen == keylen && strncmp(p, key, keylen) == 0
key_matches(q, p, eq, key) ==
  /\ eq - p = Len(key)
  /\ SubSeq(q, p + 1, p + Len(key)) = key

NotFound(out) == [found |-> FALSE, out |-> out, len |-> 0, top |-> -1, behind |-> TRUE]

\* the matching pair: the value is clamped, copied, terminated and decoded
pqp_decoded(dec, vlen) ==
  [found |-> TRUE, out |-> dec.mem, len |-> dec.o, top |-> vlen, behind |-> dec.behind]

pqp_copy(q, out, eq, vlen) ==
  pqp_decoded(url_decode(Put(strncpy(out, q, eq + 1, vlen), vlen, NUL)), vlen)

pqp_value(q, out, outlen, eq, amp) ==
  pqp_copy(q, out, eq,
           clamp(IF amp # NULLP THEN amp - eq - 1 ELSE strlen(q, eq + 1), outlen))

\* the while loop at p, with eq and amp the results of the two strchr calls
RECURSIVE pqp_loop(_, _, _, _, _)
pqp_pair(q, key, out, outlen, p, eq, amp) ==
  IF eq = NULLP THEN NotFound(out)
  ELSE IF key_matches(q, p, eq, key) THEN pqp_value(q, out, outlen, eq, amp)
  ELSE pqp_loop(q, key, out, outlen, IF amp # NULLP THEN amp + 1 ELSE NULLP)

pqp_loop(q, key, out, outlen, p) ==
  IF p = NULLP \/ At(q, p) = NUL THEN NotFound(out)
  ELSE pqp_pair(q, key, out, outlen, p, strchr(q, p, "="), strchr(q, p, "&"))

parse_query_param(query, key, out, outlen) ==
  IF query.null THEN NotFound(out)
  ELSE pqp_loop(Z(query.s), key, out, outlen, 0)

(***************************************************************************)
(* The dataset.  Coordinates are in units of 1e-4 degree, the precision    *)
(* the table is written with.                                              *)
(***************************************************************************)
DEMO_CITIES ==
  << [city |-> <<"S","t","o","c","k","h","o","l","m">>, country |-> <<"S","E">>, lat |-> 593293, lon |-> 180686],
     [city |-> <<"O","r","e","b","r","o">>, country |-> <<"S","E">>, lat |-> 592741, lon |-> 152066],
     [city |-> <<"M","a","l","m","o">>, country |-> <<"S","E">>, lat |-> 556050, lon |-> 130038],
     [city |-> <<"G","o","t","h","e","n","b","u","r","g">>, country |-> <<"S","E">>, lat |-> 577089, lon |-> 119746],
     [city |-> <<"U","p","p","s","a","l","a">>, country |-> <<"S","E">>, lat |-> 598586, lon |-> 176389] >>

NoCity == 0

(***************************************************************************)
(* Formatting.                                                             *)
(***************************************************************************)
\* the decimal digits of n >= 0 (printf %d)
RECURSIVE Dec(_)
Dec(n) == IF n < 10 THEN <<Digits[n + 1]>> ELSE Dec(n \div 10) \o <<Digits[(n % 10) + 1]>>

\* n >= 0 in exactly w digits, zero padded (strftime %m, %d, %H, %M, %S)
Pad(n, w) == Rep("0", w - Len(Dec(n))) \o Dec(n)

Pow10(k) == IF k = 0 THEN 1 ELSE IF k = 1 THEN 10 ELSE IF k = 2 THEN 100
            ELSE IF k = 3 THEN 1000 ELSE IF k = 4 THEN 10000 ELSE IF k = 5 THEN 100000
            ELSE 1000000

\* printf %.kf of the number n / 10^k
Fixed(n, k) ==
  LET a == IF n < 0 THEN -n ELSE n
  IN (IF n < 0 THEN <<"-">> ELSE <<>>) \o Dec(a \div Pow10(k)) \o <<".">> \o Pad(a % Pow10(k), k)

\* snprintf into a buffer of size bytes: at most size - 1 bytes are kept
snprintf(size, s) == SubSeq(s, 1, Min(Len(s), size - 1))

\* json_error: the error body, formatted into the static 1024-byte buffer
json_error(code, message) ==
  snprintf(1024, <<"{","\"","e","r","r","o","r","\"",":","{","\"","c","o","d","e","\"",":">> \o Dec(code) \o <<",","\"","m","e","s","s","a","g","e","\"",":","\"">> \o message \o <<"\"","}","}">>)

(***************************************************************************)
(* write_response.  body is [null, s].  The response is the header fields  *)
(* (Content-Length as the digits %d prints) and the body bytes sent after  *)
(* the header block.                                                       *)
(***************************************************************************)
Body(s) == [null |-> FALSE, s |-> s]

\* write_response with the body length counted one too many
write_response_offbyone(status_code, status_text, content_type, body) ==
  LET content_length == IF body.null THEN 0 ELSE Len(body.s) + 1
  IN [status |-> status_code, text |-> status_text, ctype |-> content_type,
      contentLength |-> Dec(content_length),
      cors |-> TRUE, connection |-> "close",
      body |-> IF ~body.null /\ content_length > 0
               THEN SubSeq(body.s, 1, Min(content_length, Len(body.s))) ELSE <<>>]

write_response(status_code, status_text, content_type, body) ==
  LET content_length == IF body.null THEN 0 ELSE Len(body.s)
  IN [status |-> status_code, text |-> status_text, ctype |-> content_type,
      contentLength |-> Dec(content_length),
      cors |-> TRUE, connection |-> "close",
      body |-> IF ~body.null /\ content_length > 0
               THEN SubSeq(body.s, 1, content_length) ELSE <<>>]

write_options_ok == write_response(204, "No Content", "text/plain", Body(<<>>))

JSON == "application/json"

(***************************************************************************)
(* parse_request_line.  buf is the request buffer with its terminator.     *)
(* The result holds the buffer (the CRLF's first byte overwritten), the    *)
(* method and path as C strings, the query, and the highest index written  *)
(* in the method and path buffers (-1: not written).                       *)
(***************************************************************************)
ParseFail(b, method, mtop) ==
  [ok |-> FALSE, buf |-> b, method |-> method, path |-> <<>>, query |-> NoQuery,
   mtop |-> mtop, ptop |-> -1]

\* the split of the path buffer on `?`, q the result of strchr(path, '?')
prl_split(b, method, m, pathbuf, pathlen, q) ==
  [ok |-> TRUE, buf |-> b, method |-> method,
   path |-> IF q # NULLP THEN SubSeq(pathbuf, 1, q) ELSE CStr(pathbuf, 0),
   query |-> IF q # NULLP THEN Query(CStr(pathbuf, q + 1)) ELSE NoQuery,
   mtop |-> m, ptop |-> pathlen]

\* the path is clamped to pathlen bytes, copied and terminated
prl_path(b, method, m, sp1, pathlen) ==
  prl_split(b, method, m, Z(SubSeq(b, sp1 + 2, sp1 + 1 + pathlen)), pathlen,
            strchr(Z(SubSeq(b, sp1 + 2, sp1 + 1 + pathlen)), 0, "?"))

\* prl_sp2 that takes the rest of the line as the path when there is no
\* second space
prl_sp2_lenient(b, plen, sp1, m, sp2) ==
  prl_path(b, SubSeq(b, 1, m), m, sp1,
           clamp(IF sp2 = NULLP THEN strlen(b, sp1 + 1) ELSE sp2 - (sp1 + 1), plen))

\* the method has been copied; sp2 is the result of strchr(sp1 + 1, ' ')
prl_sp2(b, plen, sp1, m, sp2) ==
  IF sp2 = NULLP THEN ParseFail(b, SubSeq(b, 1, m), m)
  ELSE prl_path(b, SubSeq(b, 1, m), m, sp1, clamp(sp2 - (sp1 + 1), plen))

\* the line is terminated; sp1 is the result of strchr(buf, ' ')
prl_sp1(b, mlen, plen, sp1) ==
  IF sp1 = NULLP THEN ParseFail(b, <<>>, -1)
  ELSE prl_sp2(b, plen, sp1, clamp(sp1, mlen), strchr(b, sp1 + 1, " "))

\* line_end is the result of strstr(buf, "\r\n")
prl_line(b, mlen, plen, line_end) ==
  IF line_end = NULLP THEN ParseFail(b, <<>>, -1)
  ELSE prl_sp1(Put(b, line_end, NUL), mlen, plen, strchr(Put(b, line_end, NUL), 0, " "))

parse_request_line(b, mlen, plen) == prl_line(b, mlen, plen, strstr_crlf(b))

(***************************************************************************)
(* The lookups.                                                            *)
(***************************************************************************)
\* index of the first city with exactly this name, NoCity when none
find_city_by_name(name) ==
  LET hits == {i \in 1..Len(DEMO_CITIES) : DEMO_CITIES[i].city = name}
  IN IF hits = {} THEN NoCity ELSE CHOOSE i \in hits : \A j \in hits : i <= j

Abs(x) == IF x < 0 THEN -x ELSE x

\* index of the first city within 0.01 degree of (lat, lon), both in units
\* of 1e-6 degree
find_city_by_coords(lat, lon) ==
  LET hits == {i \in 1..Len(DEMO_CITIES) :
                 /\ Abs(DEMO_CITIES[i].lat * 100 - lat) < 10000
                 /\ Abs(DEMO_CITIES[i].lon * 100 - lon) < 10000}
  IN IF hits = {} THEN NoCity ELSE CHOOSE i \in hits : \A j \in hits : i <= j

\* strftime "%Y-%m-%dT%H:%M:%SZ" of a broken-down UTC time
iso8601_utc_now(g) ==
  Pad(g.year, 4) \o <<"-">> \o Pad(g.mon, 2) \o <<"-">> \o Pad(g.mday, 2) \o <<"T">> \o
  Pad(g.hour, 2) \o <<":">> \o Pad(g.min, 2) \o <<":">> \o Pad(g.sec, 2) \o <<"Z">>

(***************************************************************************)
(* atof, on the strings the model draws: optional blanks, an optional      *)
(* sign, then nan, inf, or decimal digits with an optional fraction.  The  *)
(* value is exact, in units of 1e-6; the strings drawn have at most six    *)
(* fraction digits, no exponent and no hexadecimal form.                   *)
(***************************************************************************)
\* the length of the longest run of bytes of S in s from index i on
RunLen(s, i, S) ==
  LET stops == {j \in i..Len(s) : s[j] \notin S}
  IN IF stops = {} THEN Len(s) + 1 - i
     ELSE (CHOOSE j \in stops : \A k \in stops : j <= k) - i

\* the value of a string of decimal digits, most significant first;
\* st is [d, i, acc, done]
DigitsBody(st) ==
  IF st.i > Len(st.d) THEN [st EXCEPT !.done = TRUE]
  ELSE [st EXCEPT !.acc = 10 * @ + HexVal(st.d[st.i]), !.i = @ + 1]

RECURSIVE DigitsRun(_, _)
DigitsRun(st, n) ==
  IF n = 0 THEN st
  ELSE IF n = 1 THEN (IF st.done THEN st ELSE DigitsBody(st))
  ELSE LET mid == DigitsRun(st, n \div 2)
       IN IF mid.done THEN mid ELSE DigitsRun(mid, n - (n \div 2))

DigitsVal(d) == DigitsRun([d |-> d, i |-> 1, acc |-> 0, done |-> FALSE], Len(d)).acc

atof(s) ==
  LET i0 == 1 + RunLen(s, 1, {" "})
      neg == i0 <= Len(s) /\ s[i0] = "-"
      i1 == IF i0 <= Len(s) /\ s[i0] \in {"-", "+"} THEN i0 + 1 ELSE i0
      rest == SubSeq(s, i1, Len(s))
      ni == RunLen(s, i1, Range(Digits))
      dot == i1 + ni <= Len(s) /\ s[i1 + ni] = "."
      nf == IF dot THEN RunLen(s, i1 + ni + 1, Range(Digits)) ELSE 0
      frac == SubSeq(s, i1 + ni + 1, i1 + ni + Min(nf, 6))
      mag == DigitsVal(SubSeq(s, i1, i1 + ni - 1)) * 1000000
             + DigitsVal(frac) * Pow10(6 - Len(frac))
  IN IF starts_with(rest, <<"n","a","n">>) THEN [kind |-> "nan", v |-> 0]
     ELSE IF starts_with(rest, <<"i","n","f">>) THEN [kind |-> "inf", v |-> IF neg THEN -1 ELSE 1]
     ELSE [kind |-> "num", v |-> IF neg THEN -mag ELSE mag]

\* x >= lo && x <= hi on a double, bounds in degrees
in_range(x, lo, hi) == x.kind = "num" /\ x.v >= lo * 1000000 /\ x.v <= hi * 1000000

(***************************************************************************)
(* The handlers.  Each returns the response it wrote and, for the          *)
(* parameter buffers it filled, the highest index written (-1: none) and   *)
(* url_decode's behind flag.                                               *)
(***************************************************************************)
BadRequest(message) ==
  write_response(400, "Bad Request", JSON, Body(json_error(400, message)))

geo_body(c) ==
  snprintf(BODY_SIZE,
    <<"{","\"","c","i","t","y","\"",":","\"">> \o DEMO_CITIES[c].city \o <<"\"",",","\"","c","o","u","n","t","r","y","\"",":","\"">> \o DEMO_CITIES[c].country
    \o <<"\"",",","\"","l","a","t","\"",":">> \o Fixed(DEMO_CITIES[c].lat, 4)
    \o <<",","\"","l","o","n","\"",":">> \o Fixed(DEMO_CITIES[c].lon, 4) \o <<"}">>)

\* the length test and the lookup, city the decoded parameter
geo_city(pq, city, c) ==
  [resp |-> IF Len(city) > MAX_CITY_LEN THEN BadRequest(<<"c","i","t","y"," ","t","o","o"," ","l","o","n","g"," ","(","m","a","x"," ","1","0","0",")">>)
            ELSE IF c = NoCity
            THEN write_response(404, "Not Found", JSON, Body(json_error(404, <<"c","i","t","y"," ","n","o","t"," ","f","o","u","n","d">>)))
            ELSE write_response(200, "OK", JSON, Body(geo_body(c))),
   tops |-> <<pq.top>>, behind |-> pq.behind]

geo_param(pq) ==
  IF ~pq.found
  THEN [resp |-> BadRequest(<<"m","i","s","s","i","n","g"," ","q","u","e","r","y"," ","p","a","r","a","m",":"," ","c","i","t","y">>), tops |-> <<pq.top>>,
        behind |-> pq.behind]
  ELSE geo_city(pq, CStr(pq.out, 0), find_city_by_name(CStr(pq.out, 0)))

handle_geo(query) ==
  geo_param(parse_query_param(query, <<"c","i","t","y">>, Rep(NUL, CITY_SIZE), CITY_SIZE))

weather_body(name, now) ==
  snprintf(BODY_SIZE,
    <<"{","\"","t","e","m","p","C","\"",":">>
    \o Fixed(IF name = <<"M","a","l","m","o">> THEN 105 ELSE IF name = <<"G","o","t","h","e","n","b","u","r","g">> THEN 82
             ELSE IF name = <<"O","r","e","b","r","o">> THEN 63 ELSE 70, 1)
    \o <<",","\"","d","e","s","c","r","i","p","t","i","o","n","\"",":","\"">>
    \o (IF name = <<"M","a","l","m","o">> THEN <<"S","u","n","n","y">> ELSE IF name = <<"G","o","t","h","e","n","b","u","r","g">> THEN <<"W","i","n","d","y">>
        ELSE IF name = <<"O","r","e","b","r","o">> THEN <<"O","v","e","r","c","a","s","t">> ELSE <<"C","l","o","u","d","y">>)
    \o <<"\"",",","\"","u","p","d","a","t","e","d","A","t","\"",":","\"">> \o iso8601_utc_now(now) \o <<"\"","}">>)

\* the range tests and the lookup, lat and lon the results of atof
weather_coords(lat, lon, c, now) ==
  IF ~in_range(lat, -90, 90) THEN BadRequest(<<"l","a","t"," ","o","u","t"," ","o","f"," ","r","a","n","g","e"," ","(","-","9","0",".",".","9","0",")">>)
  ELSE IF ~in_range(lon, -180, 180) THEN BadRequest(<<"l","o","n"," ","o","u","t"," ","o","f"," ","r","a","n","g","e"," ","(","-","1","8","0",".",".","1","8","0",")">>)
  ELSE write_response(200, "OK", JSON,
         Body(weather_body(IF c = NoCity THEN <<>> ELSE DEMO_CITIES[c].city, now)))

weather_values(lat, lon, now) ==
  weather_coords(lat, lon, find_city_by_coords(lat.v, lon.v), now)

weather_lon(plat, plon, now) ==
  [resp |-> IF ~plon.found THEN BadRequest(<<"m","i","s","s","i","n","g"," ","q","u","e","r","y"," ","p","a","r","a","m","s",":"," ","l","a","t",","," ","l","o","n">>)
            ELSE weather_values(atof(CStr(plat.out, 0)), atof(CStr(plon.out, 0)), now),
   tops |-> <<plat.top, plon.top>>, behind |-> plat.behind /\ plon.behind]

\* `!parse(lat) || !parse(lon)`: lon is parsed only when lat was found
weather_lat(plat, query, now) ==
  IF ~plat.found
  THEN [resp |-> BadRequest(<<"m","i","s","s","i","n","g"," ","q","u","e","r","y"," ","p","a","r","a","m","s",":"," ","l","a","t",","," ","l","o","n">>), tops |-> <<plat.top>>,
        behind |-> plat.behind]
  ELSE weather_lon(plat, parse_query_param(query, <<"l","o","n">>, Rep(NUL, COORD_SIZE), COORD_SIZE),
                   now)

handle_weather(query, now) ==
  weather_lat(parse_query_param(query, <<"l","a","t">>, Rep(NUL, COORD_SIZE), COORD_SIZE), query, now)

(***************************************************************************)
(* handle_request: the responses written, the buffer afterwards, and what  *)
(* the run did: the parse result, the route taken, the highest index       *)
(* written in each destination buffer.                                     *)
(***************************************************************************)
\* the route with the GET test before the OPTIONS test
route_of_getfirst(pr) ==
  IF ~pr.ok THEN "bad"
  ELSE IF pr.method # <<"G","E","T">> THEN "405"
  ELSE IF pr.method = <<"O","P","T","I","O","N","S">> THEN "options"
  ELSE IF starts_with(pr.path, <<"/","a","p","i","/","v","1","/","g","e","o">>) THEN "geo"
  ELSE IF starts_with(pr.path, <<"/","a","p","i","/","v","1","/","w","e","a","t","h","e","r">>) THEN "weather"
  ELSE "404"

route_of(pr) ==
  IF ~pr.ok THEN "bad"
  ELSE IF pr.method = <<"O","P","T","I","O","N","S">> THEN "options"
  ELSE IF pr.method # <<"G","E","T">> THEN "405"
  ELSE IF starts_with(pr.path, <<"/","a","p","i","/","v","1","/","g","e","o">>) THEN "geo"
  ELSE IF starts_with(pr.path, <<"/","a","p","i","/","v","1","/","w","e","a","t","h","e","r">>) THEN "weather"
  ELSE "404"

\* Handled with the response written twice
Handled_twice(pr, route, h) ==
  [wire |-> <<h.resp, h.resp>>, buf |-> pr.buf,
   info |-> [kind |-> "request", ok |-> pr.ok, method |-> pr.method, path |-> pr.path,
             query |-> pr.query, route |-> route, mtop |-> pr.mtop, ptop |-> pr.ptop,
             tops |-> h.tops, behind |-> h.behind]]

Handled(pr, route, h) ==
  [wire |-> <<h.resp>>, buf |-> pr.buf,
   info |-> [kind |-> "request", ok |-> pr.ok, method |-> pr.method, path |-> pr.path,
             query |-> pr.query, route |-> route, mtop |-> pr.mtop, ptop |-> pr.ptop,
             tops |-> h.tops, behind |-> h.behind]]

Direct(resp) == [resp |-> resp, tops |-> <<>>, behind |-> TRUE]

respond(pr, route, now) ==
  CASE route = "bad" -> Handled(pr, route, Direct(BadRequest(<<"i","n","v","a","l","i","d"," ","r","e","q","u","e","s","t"," ","l","i","n","e">>)))
    [] route = "options" -> Handled(pr, route, Direct(write_options_ok))
    [] route = "405" ->
         Handled(pr, route, Direct(write_response(405, "Method Not Allowed", JSON,
                                     Body(json_error(405, <<"m","e","t","h","o","d"," ","n","o","t"," ","a","l","l","o","w","e","d">>)))))
    [] route = "geo" -> Handled(pr, route, handle_geo(pr.query))
    [] route = "weather" -> Handled(pr, route, handle_weather(pr.query, now))
    [] OTHER ->
         Handled(pr, route, Direct(write_response(404, "Not Found", JSON,
                                     Body(json_error(404, <<"n","o","t"," ","f","o","u","n","d">>)))))

dispatch(pr, now) == respond(pr, route_of(pr), now)

handle_request(b, now) == dispatch(parse_request_line(b, METHOD_SIZE, PATH_SIZE), now)

(***************************************************************************)
(* Specification of url_decode alone: the argument is any C string over    *)
(* DecAlphabet of at most MaxDecLen bytes.                                 *)
(***************************************************************************)
DecAlphabet == {"%", "+", "4", "F", "0", "g"}

RECURSIVE SeqsUpTo(_, _)
SeqsUpTo(S, n) ==
  IF n = 0 THEN {<<>>}
  ELSE LET shorter == SeqsUpTo(S, n - 1)
       IN shorter \cup {Append(s, c) : s \in {t \in shorter : Len(t) = n - 1}, c \in S}

Idle == [kind |-> "none"]

InitDecode ==
  /\ pc = "decode"
  /\ arg \in {[kind |-> "decode", s |-> s] : s \in SeqsUpTo(DecAlphabet, MaxDecLen)}
  /\ res = Idle
  /\ serverOpen = FALSE /\ clientOpen = FALSE /\ nreads = 0 /\ r = 0
  /\ rx = <<>> /\ buf = <<>> /\ wire = <<>> /\ info = Idle

Decode ==
  /\ pc = "decode"
  /\ pc' = "decoded"
  /\ res' = [kind |-> "decode"] @@ url_decode(Z(arg.s))
  /\ UNCHANGED <<serverOpen, clientOpen, nreads, r, rx, buf, wire, info, arg>>

NextDecode == Decode

SpecDecode == InitDecode /\ [][NextDecode]_vars

(***************************************************************************)
(* Specification of parse_query_param alone: the query is the null         *)
(* pointer or at most MaxPairs pairs from PairForms joined with `&`.       *)
(***************************************************************************)
PairForms ==
  { <<>>,
    <<"a">>,
    <<"a","=">>,
    <<"a","=","b">>,
    <<"b","=","a">>,
    <<"=","a">>,
    <<"a","b","=","+","a">>,
    <<"a","=","%","4","1">>,
    <<"a","=","b","=","a">>,
    <<"a","=","%","0","0","b">> }

RECURSIVE JoinedPairs(_)
JoinedPairs(n) ==
  IF n = 1 THEN PairForms
  ELSE {q \o <<"&">> \o pr : q \in JoinedPairs(n - 1), pr \in PairForms}

QueryStrings == UNION {JoinedPairs(n) : n \in 1..MaxPairs}

Keys == { <<"a">>, <<"b">>, <<"a","b">>, <<>>, <<"A">>, <<"a","&","a">> }

OutLens == {3, CITY_SIZE}

InitQuery ==
  /\ pc = "query"
  /\ arg \in {[kind |-> "query", query |-> q, key |-> k, outlen |-> n] :
                q \in {NoQuery} \cup {Query(s) : s \in QueryStrings},
                k \in Keys, n \in OutLens}
  /\ res = Idle
  /\ serverOpen = FALSE /\ clientOpen = FALSE /\ nreads = 0 /\ r = 0
  /\ rx = <<>> /\ buf = <<>> /\ wire = <<>> /\ info = Idle

ParseQuery ==
  /\ pc = "query"
  /\ pc' = "queried"
  /\ res' = [kind |-> "query"] @@
            parse_query_param(arg.query, arg.key, Rep(NUL, arg.outlen), arg.outlen)
  /\ UNCHANGED <<serverOpen, clientOpen, nreads, r, rx, buf, wire, info, arg>>

NextQuery == ParseQuery

SpecQuery == InitQuery /\ [][NextQuery]_vars

(***************************************************************************)
(* The server: main's accept loop.  The state after listen() succeeded is  *)
(* the initial state.  What recv() delivers is drawn from Messages: every  *)
(* short byte string over RawAlphabet, and HTTP requests put together from *)
(* the methods, paths and query strings below.                             *)
(***************************************************************************)
RawAlphabet == {"G", " ", CR, LF, NUL}

RawBuffers == SeqsUpTo(RawAlphabet, MaxRawLen) \ {<<>>}

Request(method, path, query) ==
  method \o <<" ">> \o path \o (IF query.null THEN <<>> ELSE <<"?">> \o query.s)
  \o <<" ","H","T","T","P","/","1",".","1">> \o <<CR, LF, CR, LF>>

Methods ==
  { <<"G","E","T">>, <<"O","P","T","I","O","N","S">>, <<"P","O","S","T">>, <<"g","e","t">>, <<"G","E","T","X">>, <<>>, <<"O","P","T","I","O","N","S">> \o Rep("X", 12) }

Paths ==
  { <<"/","a","p","i","/","v","1","/","g","e","o">>, <<"/","a","p","i","/","v","1","/","g","e","o","g","r","a","p","h","y">>, <<"/","a","p","i","/","v","1","/","w","e","a","t","h","e","r">>, <<"/","a","p","i","/","v","1","/","w","e","a","t","h","e","r","m","a","n">>,
    <<"/","a","p","i","/","v","1","/","g","e">>, <<"/","a","p","i","/","v","1">>, <<"/">>, <<>>, <<"/","a","p","i","/","v","1","/","g","e","o">> \o Rep("/", 300) }

CityValues ==
  { DEMO_CITIES[i].city : i \in 1..Len(DEMO_CITIES) } \cup
  { <<"m","a","l","m","o">>, <<"M","A","L","M","O">>, <<"M","a","l","m">>, <<"A","t","l","a","n","t","i","s">>, <<>>, <<"M","a","l","m","o","%","2","0","C","i","t","y">>, <<"M","a","l","m","o","+">>, <<"%","4","d","a","l","m","o">>,
    <<"%","4","D","a","l","m","%","6","F">>, <<"M","a","l","m","o","%","0","0","x">>, <<"M","a","l","m","o","%","2">>, <<"O","r","e","b","r","o","%">> } \cup
  { Rep("a", n) : n \in {100, 101, 127, 128, 300} } \cup
  { RepS(<<"%","4","1">>, n) : n \in {42, 100, 101} } \cup
  { Rep("a", 86) \o RepS(<<"%","4","1">>, 14) }

GeoQueries ==
  { NoQuery, Query(<<>>), Query(<<"c","i","t","y">>), Query(<<"C","i","t","y","=","M","a","l","m","o">>), Query(<<"x","c","i","t","y","=","M","a","l","m","o">>),
    Query(<<"x","=","1","&","c","i","t","y","=","M","a","l","m","o">>), Query(<<"f","l","a","g","&","c","i","t","y","=","M","a","l","m","o">>), Query(<<"c","i","t","y","=","M","a","l","m","o","&","c","i","t","y","=","A","t","l","a","n","t","i","s">>),
    Query(<<"c","i","t","y","=","A","t","l","a","n","t","i","s","&","c","i","t","y","=","M","a","l","m","o">>), Query(<<"x","=">> \o Rep("a", 240) \o <<"&","c","i","t","y","=">> \o Rep("a", 101)) }
  \cup { Query(<<"c","i","t","y","=">> \o v) : v \in CityValues }

GeoRequests ==
  { Request(<<"G","E","T">>, p, q) : p \in {<<"/","a","p","i","/","v","1","/","g","e","o">>, <<"/","a","p","i","/","v","1","/","g","e","o","g","r","a","p","h","y">>}, q \in GeoQueries }
  \cup { Request(<<"G","E","T">>, <<"/","a","p","i","/","v","1","/","g","e","o">> \o Rep("x", 233), Query(<<"c","i","t","y","=","M","a","l","m","o","X","Y","Z">>)),
         Request(<<"G","E","T">>, <<"/","a","p","i","/","v","1","/","g","e","o">> \o Rep("x", 243), Query(<<"c","i","t","y","=">> \o Rep("a", 101))),
         Request(<<"G","E","T">>, <<"/","a","p","i","/","v","1","/","g","e","o">> \o Rep("x", 233), Query(<<"c","i","t","y","=","M","a","l","m","o">> \o Rep("a", 96))) }

LatValues ==
  { <<"0">>, <<"9","0">>, <<"-","9","0">>, <<"9","0",".","0","0","0","0","0","0">>, <<"9","1">>, <<"-","9","1">>, <<"9","0",".","0","0","0","0","0","1">>, <<"-","9","0",".","5">>, <<"5","5",".","6","0","5","0">>, <<"5","5",".","6","1","0","0">>,
    <<"5","7",".","7","0","8","9">>, <<"5","9",".","2","7","4","1">>, <<"5","9",".","3","2","9","3">>, <<"a","b","c">>, <<>>, <<"n","a","n">>, <<"i","n","f">>, <<"-","i","n","f">>, <<"%","3","9","%","3","1">>, <<"1","2","a","b","c">>,
    Rep("0", 62) \o <<"9","1">>, Rep("0", 61) \o <<"9","1">> }

LonValues ==
  { <<"0">>, <<"1","8","0">>, <<"-","1","8","0">>, <<"1","8","1">>, <<"-","1","8","0",".","0","0","0","0","0","1">>, <<"1","3",".","0","0","3","8">>, <<"1","1",".","9","7","4","6">>, <<"1","5",".","2","0","6","6">>, <<"1","8",".","0","6","8","6">>,
    <<"n","a","n">>, <<>>, Rep("0", 62) \o <<"1","8","1">> }

WeatherQueries ==
  { NoQuery, Query(<<>>), Query(<<"l","a","t","=","1">>), Query(<<"l","o","n","=","1">>), Query(<<"l","a","t","&","l","o","n","=","1">>),
    Query(<<"l","o","n","=","1","3",".","0","0","3","8","&","l","a","t","=","5","5",".","6","0","5","0">>), Query(<<"l","a","t","=","9","1">>), Query(<<"l","a","t","=","1","&","L","o","n","=","2">>) }
  \cup { Query(<<"l","a","t","=">> \o a \o <<"&","l","o","n","=">> \o o) : a \in LatValues, o \in LonValues }

WeatherRequests ==
  { Request(<<"G","E","T">>, <<"/","a","p","i","/","v","1","/","w","e","a","t","h","e","r">>, q) : q \in WeatherQueries }

PlainRequests ==
  { Request(m, p, q) : m \in Methods, p \in Paths, q \in {NoQuery, Query(<<"c","i","t","y","=","M","a","l","m","o">>)} }

LongRequests ==
  { <<"G","E","T"," ","/","a","p","i","/","v","1","/","g","e","o","?","c","i","t","y","=">> \o Rep("a", 9000) \o <<" ","H","T","T","P","/","1",".","1">> \o <<CR, LF, CR, LF>>,
    <<"G","E","T"," ","/">> \o Rep("a", 8170) \o <<" ","H","T","T","P","/","1",".","1">> \o <<CR, LF>> \o Rep("h", 5),
    <<"G","E","T"," ","/"," ","H","T","T","P","/","1",".","1">> \o <<CR, LF>> \o Rep("h", 8175),
    Rep("G", 8191) }

\* requests with a NUL byte in or after the request line
NulRequests ==
  { <<"G","E","T"," ","/"," ","H","T","T","P","/","1",".","1">> \o <<NUL, CR, LF, CR, LF>>,
    <<"G","E","T"," ","/","a","p","i","/","v","1","/","g","e","o","?","c","i","t","y","=","M","a","l","m","o"," ","H","T","T","P">> \o <<NUL>> \o <<"/","1",".","1">> \o <<CR, LF, CR, LF>>,
    <<"G","E","T"," ","/","a","p","i","/","v","1","/","g","e","o","?","c","i","t","y","=","M","a","l">> \o <<NUL>> \o <<"m","o"," ","H","T","T","P","/","1",".","1">> \o <<CR, LF, CR, LF>>,
    <<"O","P","T","I","O","N","S">> \o <<NUL>> \o <<" ","/"," ","H","T","T","P","/","1",".","1">> \o <<CR, LF, CR, LF>>,
    <<"G","E","T"," ","/"," ","H","T","T","P","/","1",".","1">> \o <<CR, LF>> \o <<"H","o","s","t",":"," ","x">> \o <<NUL, CR, LF, CR, LF>> }

Messages ==
  RawBuffers \cup PlainRequests \cup GeoRequests \cup WeatherRequests \cup LongRequests
  \cup NulRequests

\* what gmtime(time(NULL)) can give
Times ==
  { [year |-> 2025, mon |-> 11, mday |-> 3, hour |-> 12, min |-> 34, sec |-> 56],
    [year |-> 2026, mon |-> 1, mday |-> 1, hour |-> 0, min |-> 0, sec |-> 0] }

Init ==
  /\ pc = "accept"
  /\ serverOpen = TRUE
  /\ clientOpen = FALSE
  /\ nreads = 0
  /\ r = 0
  /\ rx = <<>>
  /\ buf = <<>>
  /\ wire = <<>>
  /\ info = Idle
  /\ arg = Idle
  /\ res = Idle

\* accept() returned a client: a new connection, nothing read or written yet
Accept ==
  /\ pc = "accept"
  /\ pc' = "recv"
  /\ clientOpen' = TRUE
  /\ nreads' = 0
  /\ r' = 0
  /\ rx' = <<>>
  /\ wire' = <<>>
  /\ info' = Idle
  /\ UNCHANGED <<serverOpen, buf, arg, res>>

\* accept() failed with EINTR: continue
AcceptInterrupted ==
  /\ pc = "accept"
  /\ UNCHANGED vars

\* accept() failed otherwise: break
AcceptFailed ==
  /\ pc = "accept"
  /\ pc' = "shutdown"
  /\ UNCHANGED <<serverOpen, clientOpen, nreads, r, rx, buf, wire, info, arg, res>>

\* recv(client_fd, buf, sizeof(buf) - 1, 0) delivered the first bytes of msg
RecvBytes ==
  /\ pc = "recv"
  /\ \E msg \in Messages :
       LET n == Min(Len(msg), BUF_SIZE - 1)
       IN /\ r' = n
          /\ rx' = SubSeq(msg, 1, n)
          /\ buf' = SubSeq(msg, 1, n)
  /\ nreads' = nreads + 1
  /\ pc' = "handle"
  /\ UNCHANGED <<serverOpen, clientOpen, wire, info, arg, res>>

\* recv() returned 0 (the peer closed) or -1 (an error)
RecvNothing ==
  /\ pc = "recv"
  /\ r' \in {0, -1}
  /\ nreads' = nreads + 1
  /\ pc' = "close"
  /\ UNCHANGED <<serverOpen, clientOpen, rx, buf, wire, info, arg, res>>

\* r > 0: buf[r] = '\0'; handle_request(client_fd, buf)
HandleRequest ==
  /\ pc = "handle"
  /\ \E now \in Times :
       \E h \in {handle_request(Put(buf \o <<NUL>>, r, NUL), now)} :
          /\ wire' = wire \o h.wire
          /\ buf' = h.buf
          /\ info' = [h.info EXCEPT !.tops = <<r>> \o @]
  /\ pc' = "close"
  /\ UNCHANGED <<serverOpen, clientOpen, nreads, r, rx, arg, res>>

\* close(client_fd); the iteration ends and with it the lifetime of buf
Close ==
  /\ pc = "close"
  /\ clientOpen' = FALSE
  /\ buf' = <<>>
  /\ pc' = "accept"
  /\ UNCHANGED <<serverOpen, nreads, r, rx, wire, info, arg, res>>

\* after the loop: close(server_fd); return 0
Shutdown ==
  /\ pc = "shutdown"
  /\ serverOpen' = FALSE
  /\ pc' = "done"
  /\ UNCHANGED <<clientOpen, nreads, r, rx, buf, wire, info, arg, res>>

Next ==
  \/ Accept
  \/ AcceptInterrupted
  \/ AcceptFailed
  \/ RecvBytes
  \/ RecvNothing
  \/ HandleRequest
  \/ Close
  \/ Shutdown

Spec == Init /\ [][Next]_vars

(***************************************************************************)
(* Reference definitions the claims are stated with.                       *)
(***************************************************************************)
FirstIndex(s, c) == CHOOSE i \in 1..Len(s) : s[i] = c /\ \A j \in 1..(i - 1) : s[j] # c

\* the left-to-right scan of section 4.1 on a C string s; st is
\* [s, i, out, done]: the next index to scan and the bytes decoded so far
DecodeRefBody(st) ==
  LET s == st.s
      i == st.i
  IN IF i > Len(s) THEN [st EXCEPT !.done = TRUE]
     ELSE IF s[i] = "%" /\ i + 2 <= Len(s) /\ isxdigit(s[i + 1]) /\ isxdigit(s[i + 2])
     THEN [st EXCEPT !.out = Append(@, Chr(16 * HexVal(s[i + 1]) + HexVal(s[i + 2]))),
                     !.i = i + 3]
     ELSE IF s[i] = "+" THEN [st EXCEPT !.out = Append(@, " "), !.i = i + 1]
     ELSE [st EXCEPT !.out = Append(@, s[i]), !.i = i + 1]

RECURSIVE DecodeRefRun(_, _)
DecodeRefRun(st, n) ==
  IF n = 0 THEN st
  ELSE IF n = 1 THEN (IF st.done THEN st ELSE DecodeRefBody(st))
  ELSE LET mid == DecodeRefRun(st, n \div 2)
       IN IF mid.done THEN mid ELSE DecodeRefRun(mid, n - (n \div 2))

DecodeRef(s) == DecodeRefRun([s |-> s, i |-> 1, out |-> <<>>, done |-> FALSE], Len(s)).out

\* s split on every c
RECURSIVE SplitOn(_, _)
SplitOn(s, c) ==
  IF c \notin Range(s) THEN <<s>>
  ELSE LET i == FirstIndex(s, c)
       IN <<SubSeq(s, 1, i - 1)>> \o SplitOn(SubSeq(s, i + 1, Len(s)), c)

\* the undecoded value of the first key=value pair of the query whose key is
\* key; a pair with no `=` has no value and matches nothing
LookupRef(query, key) ==
  LET pairs == IF query.null THEN <<>> ELSE SplitOn(query.s, "&")
      hits == {i \in 1..Len(pairs) :
                 /\ "=" \in Range(pairs[i])
                 /\ SubSeq(pairs[i], 1, FirstIndex(pairs[i], "=") - 1) = key}
      first == CHOOSE i \in hits : \A j \in hits : i <= j
  IN IF hits = {} THEN [found |-> FALSE, value |-> <<>>]
     ELSE [found |-> TRUE,
           value |-> SubSeq(pairs[first], FirstIndex(pairs[first], "=") + 1,
                            Len(pairs[first]))]

\* the bytes of the decoded value parse_query_param left in out
OutBytes == SubSeq(res.out, 1, res.len)

\* the bytes of s before its first NUL: the C string a buffer holds
Text(s) == IF NUL \in Range(s) THEN SubSeq(s, 1, FirstIndex(s, NUL) - 1) ELSE s

HasCRLF(s) == \E i \in 1..(Len(s) - 1) : s[i] = CR /\ s[i + 1] = LF

\* the bytes of s before its first CRLF
FirstLine(s) ==
  LET e == CHOOSE i \in 1..(Len(s) - 1) :
             /\ s[i] = CR /\ s[i + 1] = LF
             /\ \A j \in 1..(i - 1) : ~(s[j] = CR /\ s[j + 1] = LF)
  IN SubSeq(s, 1, e - 1)

SpacesIn(s) == {i \in 1..Len(s) : s[i] = " "}

\* s has a first line with a method, a request target and a version token
LineParses(s) == HasCRLF(s) /\ Cardinality(SpacesIn(FirstLine(s))) >= 2

\* the parts of a request line: what stands before the first space, between
\* the first and the second, and the target split on its first `?`
PartBefore(s, c) == IF c \in Range(s) THEN SubSeq(s, 1, FirstIndex(s, c) - 1) ELSE s

PartAfter(s, c) == SubSeq(s, FirstIndex(s, c) + 1, Len(s))

SentMethod(line) == PartBefore(line, " ")

SentTarget(line) == PartBefore(PartAfter(line, " "), " ")

PathOf(target) == PartBefore(target, "?")

QueryOf(target) == IF "?" \in Range(target) THEN Query(PartAfter(target, "?")) ELSE NoQuery

Prefix(s, n) == SubSeq(s, 1, Min(Len(s), n))

\* a connection whose read delivered bytes, after handle_request returned
Served == pc = "close" /\ r > 0

\* the request line received, read as the parser reads it and as sent
Line == FirstLine(Text(rx))

Parsed == Served /\ LineParses(Text(rx))

\* the method and the path handle_request dispatches on
DispatchMethod == Prefix(SentMethod(Line), METHOD_SIZE - 1)

DispatchPath == PathOf(Prefix(SentTarget(Line), PATH_SIZE - 1))

GeoPrefix == <<"/","a","p","i","/","v","1","/","g","e","o">>

WeatherPrefix == <<"/","a","p","i","/","v","1","/","w","e","a","t","h","e","r">>

\* a GET for the geo endpoint, a GET for the weather endpoint
GeoSent ==
  /\ Parsed
  /\ SentMethod(Line) = <<"G","E","T">>
  /\ starts_with(PathOf(SentTarget(Line)), GeoPrefix)

WeatherSent ==
  /\ Parsed
  /\ SentMethod(Line) = <<"G","E","T">>
  /\ ~starts_with(PathOf(SentTarget(Line)), GeoPrefix)
  /\ starts_with(PathOf(SentTarget(Line)), WeatherPrefix)

\* the parameters as the client sent them
SentParam(key) == LookupRef(QueryOf(SentTarget(Line)), key)

SentCity == DecodeRef(SentParam(<<"c","i","t","y">>).value)

SentLat == atof(Text(DecodeRef(SentParam(<<"l","a","t">>).value)))

SentLon == atof(Text(DecodeRef(SentParam(<<"l","o","n">>).value)))

DatasetNames == {DEMO_CITIES[i].city : i \in 1..Len(DEMO_CITIES)}

ErrorBody(code, message) ==
  <<"{","\"","e","r","r","o","r","\"",":","{","\"","c","o","d","e","\"",":">> \o Dec(code) \o <<",","\"","m","e","s","s","a","g","e","\"",":","\"">> \o message \o <<"\"","}","}">>

(***************************************************************************)
(* The claims.                                                             *)
(***************************************************************************)

\* C6: url_decode scans left to right: %XX (two hex digits) becomes the byte
\* XX, + becomes a space, every other byte is copied, a % without two hex
\* digits is copied literally; the string the caller sees is never longer
\* than the input and an input without % and + comes back unchanged.
C6_DecodeScan ==
  pc = "decoded" =>
    /\ SubSeq(res.mem, 1, res.o) = DecodeRef(arg.s)
    /\ At(res.mem, res.o) = NUL
    /\ Len(CStr(res.mem, 0)) <= Len(arg.s)
    /\ ("%" \notin Range(arg.s) /\ "+" \notin Range(arg.s)) => CStr(res.mem, 0) = arg.s

C6_Witness ==
  /\ pc = "decoded"
  /\ arg.s = <<"%","4","F","+">>
  /\ CStr(res.mem, 0) = <<"O"," ">>

\* C5 as stated: parse_query_param finds the key exactly when the reference
\* lookup does and returns the percent-decoded value of the first matching
\* pair, for every query and key.
C5_AsStated ==
  pc = "queried" =>
    LET ref == LookupRef(arg.query, arg.key)
    IN /\ res.found = ref.found
       /\ res.found => OutBytes = DecodeRef(ref.value)

\* C5 amended: for every key without `&`, parse_query_param finds the key
\* exactly when the reference lookup does, and returns the first outlen-1
\* bytes of the value of the first matching pair, percent-decoded.
C5_ClampedLookup ==
  (pc = "queried" /\ "&" \notin Range(arg.key)) =>
    LET ref == LookupRef(arg.query, arg.key)
    IN /\ res.found = ref.found
       /\ res.found =>
            OutBytes = DecodeRef(SubSeq(ref.value, 1, Min(Len(ref.value), arg.outlen - 1)))

\* a pair with no `=` stands before the matching pair
C5_Witness ==
  /\ pc = "queried"
  /\ arg.query = Query(<<"a","&","a","=","%","4","1">>)
  /\ arg.key = <<"a">>
  /\ arg.outlen = CITY_SIZE
  /\ res.found
  /\ OutBytes = <<"A">>

\* C1: on every connection the server reads once; it writes exactly one
\* response when the read returned at least one byte and none when it
\* returned zero or a negative count; the connection is open until Close and
\* closed whenever the server is back at accept.
C1_OneReadOneResponse ==
  /\ pc = "recv" => clientOpen /\ nreads = 0 /\ wire = <<>>
  /\ pc = "handle" => clientOpen /\ nreads = 1 /\ r > 0 /\ wire = <<>>
  /\ pc = "close" => clientOpen /\ nreads = 1 /\ Len(wire) = (IF r > 0 THEN 1 ELSE 0)
  /\ pc \in {"accept", "shutdown", "done"} =>
       /\ ~clientOpen
       /\ nreads \in {0, 1}
       /\ Len(wire) = (IF nreads = 1 /\ r > 0 THEN 1 ELSE 0)

C1_Witness ==
  /\ pc = "accept"
  /\ ~clientOpen
  /\ nreads = 1
  /\ r > 0
  /\ Len(wire) = 1
  /\ info.route = "geo"

\* C2: when the request line parses, the first rule that applies decides:
\* method OPTIONS gives 204 with an empty body; any other method than GET
\* gives 405; a path that starts with /api/v1/geo runs the geo handler; a
\* path that starts with /api/v1/weather runs the weather handler; any
\* other path gives 404.
C2_DispatchOrder ==
  Parsed =>
    IF DispatchMethod = <<"O","P","T","I","O","N","S">>
    THEN wire[1].status = 204 /\ wire[1].body = <<>> /\ info.tops = <<r>>
    ELSE IF DispatchMethod # <<"G","E","T">>
    THEN wire[1].status = 405 /\ info.tops = <<r>>
    ELSE IF starts_with(DispatchPath, GeoPrefix)
    THEN info.route = "geo" /\ Len(info.tops) = 2 /\ wire[1].status \in {200, 400, 404}
    ELSE IF starts_with(DispatchPath, WeatherPrefix)
    THEN info.route = "weather" /\ Len(info.tops) \in {2, 3} /\ wire[1].status \in {200, 400}
    ELSE wire[1].status = 404 /\ wire[1].body = ErrorBody(404, <<"n","o","t"," ","f","o","u","n","d">>)
         /\ info.tops = <<r>>

\* 405 wins over 404: a POST to an unknown path
C2_Witness ==
  /\ Parsed
  /\ DispatchMethod = <<"P","O","S","T">>
  /\ DispatchPath = <<"/">>
  /\ wire[1].status = 405

\* C3 on the names the geo handler takes whole: a GET to the geo endpoint
\* whose city value fits the path and parameter buffers, is at most 100
\* characters long when decoded and is not the name of a dataset city gets
\* 404.
C3_UnknownName404 ==
  (/\ GeoSent
   /\ Len(SentTarget(Line)) < PATH_SIZE
   /\ SentParam(<<"c","i","t","y">>).found
   /\ Len(SentParam(<<"c","i","t","y">>).value) < CITY_SIZE
   /\ Len(SentCity) <= MAX_CITY_LEN
   /\ SentCity \notin DatasetNames)
  => wire[1].status = 404

\* C4: a GET to the geo endpoint whose city value is longer than 100
\* characters when decoded gets 400.
C4_LongName400 ==
  (/\ GeoSent
   /\ SentParam(<<"c","i","t","y">>).found
   /\ Len(SentCity) > MAX_CITY_LEN)
  => wire[1].status = 400

\* C7 as stated, on the bytes received: the response is the 400 "invalid
\* request line" exactly when the buffer has no CRLF or its first line has
\* fewer than two spaces, and then no handler runs.
C7_AsStated ==
  Served =>
    /\ ~LineParses(rx) <=>
         (wire[1].status = 400
          /\ wire[1].body = ErrorBody(400, <<"i","n","v","a","l","i","d"," ","r","e","q","u","e","s","t"," ","l","i","n","e">>))
    /\ ~LineParses(rx) => info.route = "bad" /\ info.tops = <<r>>

\* C7 amended: with the buffer read as the C string that ends before its
\* first NUL byte, the response is the 400 "invalid request line" exactly
\* when that string has no CRLF or its first line has fewer than two spaces,
\* and then no handler runs.
C7_InvalidRequestLine ==
  Served =>
    /\ ~LineParses(Text(rx)) <=>
         (wire[1].status = 400
          /\ wire[1].body = ErrorBody(400, <<"i","n","v","a","l","i","d"," ","r","e","q","u","e","s","t"," ","l","i","n","e">>))
    /\ ~LineParses(Text(rx)) => info.route = "bad" /\ info.tops = <<r>>

\* two spaces that stand only after the first CRLF
C7_Witness ==
  /\ Served
  /\ rx = <<CR, LF, " ", " ">>
  /\ wire[1].status = 400
  /\ wire[1].body = ErrorBody(400, <<"i","n","v","a","l","i","d"," ","r","e","q","u","e","s","t"," ","l","i","n","e">>)
  /\ info.route = "bad"

\* C8: a GET to the weather endpoint with both parameters gets the 400
\* latitude message when lat is outside [-90,90], and the 400 longitude
\* message when lat is inside and lon is outside [-180,180].
C8_OutOfRange400 ==
  (/\ WeatherSent
   /\ SentParam(<<"l","a","t">>).found
   /\ SentParam(<<"l","o","n">>).found)
  => /\ ~in_range(SentLat, -90, 90) =>
          /\ wire[1].status = 400
          /\ wire[1].body = ErrorBody(400, <<"l","a","t"," ","o","u","t"," ","o","f"," ","r","a","n","g","e"," ","(","-","9","0",".",".","9","0",")">>)
     /\ (in_range(SentLat, -90, 90) /\ ~in_range(SentLon, -180, 180)) =>
          /\ wire[1].status = 400
          /\ wire[1].body = ErrorBody(400, <<"l","o","n"," ","o","u","t"," ","o","f"," ","r","a","n","g","e"," ","(","-","1","8","0",".",".","1","8","0",")">>)

\* C9: every response written carries a Content-Length whose value is the
\* number of body bytes sent after the header block, 0 for an empty body.
C9_ContentLength ==
  \A i \in 1..Len(wire) : DigitsVal(wire[i].contentLength) = Len(wire[i].body)

\* the 200 for city=Malmo: a body of 59 bytes
C9_Witness ==
  /\ Served
  /\ info.route = "geo"
  /\ wire[1].status = 200
  /\ wire[1].contentLength = <<"5","9">>
  /\ Len(wire[1].body) = 59

\* C10: every write of request handling lands inside its buffer: the
\* terminator of the request buffer below BUF_SIZE, those of method and
\* path below their sizes, those of the city, lat and lon buffers below
\* theirs, and url_decode's write index never passes its read index.
C10_WritesInBounds ==
  Served =>
    /\ info.tops[1] < BUF_SIZE
    /\ info.mtop < METHOD_SIZE /\ Len(info.method) < METHOD_SIZE
    /\ info.ptop < PATH_SIZE /\ Len(info.path) < PATH_SIZE
    /\ \A i \in 2..Len(info.tops) :
         info.tops[i] < (IF info.route = "geo" THEN CITY_SIZE ELSE COORD_SIZE)
    /\ info.behind

\* the path and the city value are both clamped
C10_Witness ==
  /\ Served
  /\ info.route = "geo"
  /\ info.ptop = PATH_SIZE - 1
  /\ info.tops = <<r, CITY_SIZE - 1>>

====
